---------------------------- MODULE Spec2Model ----------------------------
(***************************************************************************)
(* Study timetable: the block store (StudyStorageManager), its conflict    *)
(* validator and colour table, and the StudyTimetable component's handlers *)
(* that drive them.                                                        *)
(*                                                                         *)
(* Instants (the ISO strings of start, end, createdAt, updatedAt) are      *)
(* integers counting half hours; a subject is a sequence of characters.    *)
(***************************************************************************)
EXTENDS Integers, Sequences, FiniteSets, TLC

VARIABLES
    storage,            \* localStorage item under STORAGE_KEY
    colorAssignments,   \* StudyStorageManager.colorAssignments
    blocks,             \* StudyTimetable state: blocks
    editingBlock,       \* StudyTimetable state: editingBlock
    isFormOpen,         \* StudyTimetable state: isFormOpen
    formError,          \* StudyTimetable state: formError
    now,                \* the current instant (new Date())
    nextId,             \* number of identifiers uuidv4 has handed out
    ret                 \* the last operation: its name, arguments and outcome

vars == <<storage, colorAssignments, blocks, editingBlock, isFormOpen,
          formError, now, nextId, ret>>

(***************************************************************************)
(* Values                                                                  *)
(***************************************************************************)
Null == [kind |-> "null"]         \* null: no ConflictError, no editingBlock
NoDescription == "undefined"      \* description?: undefined
NoId == 0                         \* excludeId?: undefined (identifiers count from 1)

SUBJECT_COLORS ==
    << "subject-blue", "subject-green", "subject-purple", "subject-orange",
       "subject-pink", "subject-teal", "subject-indigo", "subject-cyan",
       "subject-red", "subject-yellow" >>

Range(s) == {s[i] : i \in DOMAIN s}

Min(S) == CHOOSE x \in S : \A y \in S : x <= y

(***************************************************************************)
(* String.prototype.toLowerCase and trim, on sequences of characters       *)
(***************************************************************************)
LowerChar(c) ==
    CASE c = "M" -> "m"
      [] c = "A" -> "a"
      [] c = "B" -> "b"
      [] c = "P" -> "p"
      [] OTHER -> c

toLowerCase(s) == [i \in DOMAIN s |-> LowerChar(s[i])]

IsSpace(c) == c = " "

RECURSIVE trimStart(_)
trimStart(s) ==
    IF s = <<>> THEN s
    ELSE IF IsSpace(Head(s)) THEN trimStart(Tail(s)) ELSE s

RECURSIVE trimEnd(_)
trimEnd(s) ==
    IF s = <<>> THEN s
    ELSE IF IsSpace(s[Len(s)]) THEN trimEnd(SubSeq(s, 1, Len(s) - 1)) ELSE s

trim(s) == trimEnd(trimStart(s))

normalizedSubject(subject) == trim(toLowerCase(subject))

(***************************************************************************)
(* The colour table: getSubjectColor and rebuildColorAssignments           *)
(***************************************************************************)
EmptyMap == [k \in {} |-> Null]

MapSet(m, k, v) == [x \in DOMAIN m \cup {k} |-> IF x = k THEN v ELSE m[x]]

usedColors(m) == {m[k] : k \in DOMAIN m}

\* a slip: the fallback is the last palette token, not the first
availableColor_fallbackLast(m) ==
    LET free == {i \in DOMAIN SUBJECT_COLORS : SUBJECT_COLORS[i] \notin usedColors(m)}
    IN  IF free # {} THEN SUBJECT_COLORS[Min(free)]
        ELSE SUBJECT_COLORS[Len(SUBJECT_COLORS)]

availableColor(m) ==
    LET free == {i \in DOMAIN SUBJECT_COLORS : SUBJECT_COLORS[i] \notin usedColors(m)}
    IN  IF free # {} THEN SUBJECT_COLORS[Min(free)] ELSE SUBJECT_COLORS[1]

\* a slip: the table is keyed by the subject as typed, not normalized
getSubjectColor_rawKey(m, subject) ==
    IF subject \in DOMAIN m
    THEN [color |-> m[subject], table |-> m]
    ELSE [color |-> availableColor(m), table |-> MapSet(m, subject, availableColor(m))]

\* the token returned and the table left behind
getSubjectColor(m, subject) ==
    LET n == normalizedSubject(subject)
    IN  IF n \in DOMAIN m
        THEN [color |-> m[n], table |-> m]
        ELSE [color |-> availableColor(m), table |-> MapSet(m, n, availableColor(m))]

\* a slip: a later block overwrites the assignment of an earlier one
RECURSIVE rebuildFrom_lastWins(_, _)
rebuildFrom_lastWins(m, bs) ==
    IF bs = <<>> THEN m
    ELSE rebuildFrom_lastWins(MapSet(m, normalizedSubject(Head(bs).subject),
                                     Head(bs).color),
                              Tail(bs))

RECURSIVE rebuildFrom(_, _)
rebuildFrom(m, bs) ==
    IF bs = <<>> THEN m
    ELSE LET n == normalizedSubject(Head(bs).subject)
         IN  rebuildFrom(IF n \in DOMAIN m THEN m ELSE MapSet(m, n, Head(bs).color),
                         Tail(bs))

rebuildColorAssignments(bs) == rebuildFrom(EmptyMap, bs)

(***************************************************************************)
(* validateBlock                                                           *)
(***************************************************************************)
\* toLocaleTimeString('en-US', hour numeric, minute 2-digit, hour12) of an
\* instant counted in half hours, for a host whose zone is UTC
formatTime(d) ==
    LET h24 == (d \div 2) % 24
    IN  [hour   |-> IF h24 % 12 = 0 THEN 12 ELSE h24 % 12,
         minute |-> (d % 2) * 30,
         period |-> IF h24 < 12 THEN "AM" ELSE "PM"]

RangeMessage == [text |-> "End time must be after start time"]

OverlapMessage(b) ==
    [text |-> "This block overlaps with your session", subject |-> b.subject,
     from |-> formatTime(b.start), to |-> formatTime(b.end)]

\* a slip: only the candidate's start is tested against the existing block
overlaps_startInside(block, existing, excludeId) ==
    /\ existing.id # excludeId
    /\ block.start < existing.end
    /\ block.start >= existing.start

\* a slip: <= and >= for < and >, so a block that only touches is a conflict
overlaps_touching(block, existing, excludeId) ==
    /\ existing.id # excludeId
    /\ block.start <= existing.end
    /\ block.end >= existing.start

\* the predicate handed to existingBlocks.find
overlaps(block, existing, excludeId) ==
    /\ existing.id # excludeId
    /\ block.start < existing.end
    /\ block.end > existing.start

\* a slip: end < start instead of end <= start, so an empty range passes
validateBlock_emptyRangePasses(block, existingBlocks, excludeId) ==
    IF block.end < block.start
    THEN [message |-> RangeMessage, conflictingBlock |-> block]
    ELSE LET hits == {i \in DOMAIN existingBlocks :
                        overlaps(block, existingBlocks[i], excludeId)}
         IN  IF hits # {}
             THEN [message |-> OverlapMessage(existingBlocks[Min(hits)]),
                   conflictingBlock |-> existingBlocks[Min(hits)]]
             ELSE Null

\* a slip: the overlapping block that starts earliest is reported, not the
\* first one in the given order
validateBlock_earliestInTime(block, existingBlocks, excludeId) ==
    IF block.end <= block.start
    THEN [message |-> RangeMessage, conflictingBlock |-> block]
    ELSE LET hits == {i \in DOMAIN existingBlocks :
                        overlaps(block, existingBlocks[i], excludeId)}
             first == CHOOSE i \in hits :
                        \A j \in hits : existingBlocks[i].start <= existingBlocks[j].start
         IN  IF hits # {}
             THEN [message |-> OverlapMessage(existingBlocks[first]),
                   conflictingBlock |-> existingBlocks[first]]
             ELSE Null

validateBlock(block, existingBlocks, excludeId) ==
    IF block.end <= block.start
    THEN [message |-> RangeMessage, conflictingBlock |-> block]
    ELSE LET hits == {i \in DOMAIN existingBlocks :
                        overlaps(block, existingBlocks[i], excludeId)}
         IN  IF hits # {}
             THEN [message |-> OverlapMessage(existingBlocks[Min(hits)]),
                   conflictingBlock |-> existingBlocks[Min(hits)]]
             ELSE Null

(***************************************************************************)
(* JSON.stringify and JSON.parse of the stored item.  A text is held as    *)
(* the JSON value it spells; a block becomes an object whose members are   *)
(* the properties that are not undefined.                                  *)
(***************************************************************************)
BlockFields ==
    {"id", "subject", "description", "start", "end", "priority", "color",
     "createdAt", "updatedAt"}

Absent == [kind |-> "absent"]        \* no item under STORAGE_KEY
EmptyText == [kind |-> "empty"]      \* the item is the empty string
GarbageText == [kind |-> "garbage"]  \* a text JSON.parse rejects
JsonNull == [type |-> "null"]
JsonObject == [type |-> "object"]    \* a JSON value that is no array

stringifyBlock(b) ==
    [f \in {g \in DOMAIN b : ~(g = "description" /\ b[g] = NoDescription)} |-> b[f]]

JSONstringify(bs) ==
    [kind |-> "text",
     json |-> [type |-> "array", items |-> [i \in DOMAIN bs |-> stringifyBlock(bs[i])]]]

\* the object JSON.parse builds for one array element, read as a StudyBlock
parseBlock(o) ==
    [f \in BlockFields |->
        IF f \in DOMAIN o THEN o[f]
        ELSE NoDescription]

IsArray(data) == data.type = "array"

\* index of the first element of a parsed array that is null (reading its
\* subject throws a TypeError), or 0
firstNull(items) ==
    LET bad == {i \in DOMAIN items : items[i] = JsonNull}
    IN  IF bad = {} THEN 0 ELSE Min(bad)

(***************************************************************************)
(* StudyStorageManager: loadBlocks, saveBlocks, createBlock, updateBlock,  *)
(* clearAll, as the value returned and the table and item left behind      *)
(***************************************************************************)
\* a slip: no try/catch, so what JSON.parse or the rebuild throws escapes
loadBlocks_noCatch(stored, m) ==
    IF stored.kind \in {"absent", "empty"}
    THEN [threw |-> FALSE, result |-> <<>>, table |-> m]
    ELSE IF stored.kind = "garbage"
    THEN [threw |-> TRUE, result |-> <<>>, table |-> m]
    ELSE IF ~IsArray(stored.json)
    THEN [threw |-> FALSE, result |-> <<>>, table |-> rebuildColorAssignments(<<>>)]
    ELSE LET items == stored.json.items
             k == firstNull(items)
         IN  IF k # 0
             THEN [threw |-> TRUE, result |-> <<>>,
                   table  |-> rebuildColorAssignments(
                                [i \in 1..(k - 1) |-> parseBlock(items[i])])]
             ELSE LET bs == [i \in DOMAIN items |-> parseBlock(items[i])]
                  IN  [threw |-> FALSE, result |-> bs,
                       table |-> rebuildColorAssignments(bs)]

loadBlocks(stored, m) ==
    IF stored.kind \in {"absent", "empty"}              \* if (!stored) return []
    THEN [threw |-> FALSE, result |-> <<>>, table |-> m]
    ELSE IF stored.kind = "garbage"                     \* JSON.parse throws: catch
    THEN [threw |-> FALSE, result |-> <<>>, table |-> m]
    ELSE IF ~IsArray(stored.json)
    THEN [threw |-> FALSE, result |-> <<>>, table |-> rebuildColorAssignments(<<>>)]
    ELSE LET items == stored.json.items
             k == firstNull(items)
         IN  IF k # 0                                   \* TypeError in forEach: catch
             THEN [threw |-> FALSE, result |-> <<>>,
                   table  |-> rebuildColorAssignments(
                                [i \in 1..(k - 1) |-> parseBlock(items[i])])]
             ELSE LET bs == [i \in DOMAIN items |-> parseBlock(items[i])]
                  IN  [threw |-> FALSE, result |-> bs,
                       table |-> rebuildColorAssignments(bs)]

\* a slip: the old item is removed before the write, so a failed write loses it
saveBlocks_removeFirst(stored, bs, writeOk) ==
    IF writeOk
    THEN [threw |-> FALSE, stored |-> JSONstringify(bs)]
    ELSE [threw |-> TRUE, stored |-> [kind |-> "absent"]]

\* setItem either stores the text or throws (quota exceeded)
saveBlocks(stored, bs, writeOk) ==
    IF writeOk
    THEN [threw |-> FALSE, stored |-> JSONstringify(bs)]
    ELSE [threw |-> TRUE, stored |-> stored]

\* a slip: the clock is read twice, the second reading being later
createBlock_twoClocks(m, data, id, t) ==
    LET c == getSubjectColor(m, data.subject)
    IN  [block |-> [id |-> id, subject |-> data.subject,
                    description |-> data.description,
                    start |-> data.start, end |-> data.end,
                    priority |-> data.priority, color |-> c.color,
                    createdAt |-> t, updatedAt |-> t + 1],
         table |-> c.table]

createBlock(m, data, id, t) ==
    LET c == getSubjectColor(m, data.subject)
    IN  [block |-> [id |-> id, subject |-> data.subject,
                    description |-> data.description,
                    start |-> data.start, end |-> data.end,
                    priority |-> data.priority, color |-> c.color,
                    createdAt |-> t, updatedAt |-> t],
         table |-> c.table]

findIndex(bs, id) ==
    LET hits == {i \in DOMAIN bs : bs[i].id = id}
    IN  IF hits = {} THEN 0 ELSE Min(hits)

\* a slip: the id is written before the updates are spread over the block
updateBlock_idFromUpdates(m, bs, id, updates, t) ==
    IF findIndex(bs, id) = 0
    THEN [threw |-> TRUE, block |-> Null, table |-> m]
    ELSE LET currentBlock == bs[findIndex(bs, id)]
             merged == [f \in BlockFields |->
                          IF f = "updatedAt" THEN t
                          ELSE IF f \in DOMAIN updates THEN updates[f]
                          ELSE currentBlock[f]]
         IN  IF /\ "subject" \in DOMAIN updates
                /\ updates.subject # <<>>
                /\ updates.subject # currentBlock.subject
             THEN LET c == getSubjectColor(m, updates.subject)
                  IN  [threw |-> FALSE,
                       block |-> [merged EXCEPT !.color = c.color],
                       table |-> c.table]
             ELSE [threw |-> FALSE, block |-> merged, table |-> m]

\* a slip: the colour of a new subject is resolved before the block is looked up
updateBlock_colorBeforeLookup(m, bs, id, updates, t) ==
    LET c == IF "subject" \in DOMAIN updates /\ updates.subject # <<>>
             THEN getSubjectColor(m, updates.subject)
             ELSE [color |-> Null, table |-> m]
    IN  IF findIndex(bs, id) = 0
        THEN [threw |-> TRUE, block |-> Null, table |-> c.table]
        ELSE LET currentBlock == bs[findIndex(bs, id)]
                 merged == [f \in BlockFields |->
                              IF f = "id" THEN id
                              ELSE IF f = "updatedAt" THEN t
                              ELSE IF f \in DOMAIN updates THEN updates[f]
                              ELSE currentBlock[f]]
             IN  IF /\ "subject" \in DOMAIN updates
                    /\ updates.subject # <<>>
                    /\ updates.subject # currentBlock.subject
                 THEN [threw |-> FALSE,
                       block |-> [merged EXCEPT !.color = c.color],
                       table |-> c.table]
                 ELSE [threw |-> FALSE, block |-> merged, table |-> m]

\* updates is a Partial<StudyBlock>: a record of some of the fields
updateBlock(m, bs, id, updates, t) ==
    IF findIndex(bs, id) = 0
    THEN [threw |-> TRUE, block |-> Null, table |-> m]
    ELSE LET currentBlock == bs[findIndex(bs, id)]
             merged == [f \in BlockFields |->
                          IF f = "id" THEN id
                          ELSE IF f = "updatedAt" THEN t
                          ELSE IF f \in DOMAIN updates THEN updates[f]
                          ELSE currentBlock[f]]
         IN  IF /\ "subject" \in DOMAIN updates
                /\ updates.subject # <<>>
                /\ updates.subject # currentBlock.subject
             THEN LET c == getSubjectColor(m, updates.subject)
                  IN  [threw |-> FALSE,
                       block |-> [merged EXCEPT !.color = c.color],
                       table |-> c.table]
             ELSE [threw |-> FALSE, block |-> merged, table |-> m]

\* whole and half hours of a duration counted in half hours:
\* duration / (1000 * 60 * 60)
hoursOf(duration) == [whole |-> duration \div 2, half |-> duration % 2]

\* the sum of two numbers of hours
addHours(a, b) ==
    [whole |-> a.whole + b.whole + ((a.half + b.half) \div 2),
     half |-> (a.half + b.half) % 2]

\* a slip: the duration is clipped to the part that lies inside the window
statsFrom_clipped(stats, bs, startDate, endDate) ==
    LET inside == {i \in DOMAIN bs : bs[i].start >= startDate /\ bs[i].start <= endDate}
        subjects == {bs[i].subject : i \in inside}
        clipped(i) == IF bs[i].end > endDate THEN endDate - bs[i].start
                      ELSE bs[i].end - bs[i].start
        RECURSIVE total(_)
        total(I) == IF I = {} THEN 0
                    ELSE LET i == CHOOSE x \in I : TRUE
                         IN  clipped(i) + total(I \ {i})
    IN  [k \in subjects |-> hoursOf(total({i \in inside : bs[i].subject = k}))]

\* the forEach of getSubjectStats over the blocks that remain
RECURSIVE statsFrom(_, _, _, _)
statsFrom(stats, bs, startDate, endDate) ==
    IF bs = <<>> THEN stats
    ELSE LET block == Head(bs)
             hours == hoursOf(block.end - block.start)
             sofar == IF block.subject \in DOMAIN stats THEN stats[block.subject]
                      ELSE hoursOf(0)
         IN  statsFrom(IF block.start >= startDate /\ block.start <= endDate
                       THEN MapSet(stats, block.subject, addHours(sofar, hours))
                       ELSE stats,
                       Tail(bs), startDate, endDate)

\* a map from the subject as typed to its hours
getSubjectStats(bs, startDate, endDate) == statsFrom(EmptyMap, bs, startDate, endDate)

clearAll == [stored |-> Absent, table |-> EmptyMap]

(***************************************************************************)
(* Bounds and the inputs of the user                                       *)
(***************************************************************************)
MaxTime == 2        \* start and end are drawn from 0..MaxTime
MaxClock == 1       \* the clock stops advancing here
MaxIds == 2         \* uuidv4 hands out at most this many identifiers

Times == 0..MaxTime

\* the ranges the user picks: every range with end after start, one empty
\* range and one inverted range
FormRanges ==
    {r \in Times \X Times : r[2] > r[1]} \cup {<<MaxTime, MaxTime>>, <<MaxTime, 0>>}

\* what the user types and picks: subject, notes, priority
FormEntries ==
    { << <<"M">>, "", "normal" >>,
      << <<"m", " ">>, "notes", "high" >>,
      << <<"A">>, "", "high" >>,
      << <<" ">>, "", "normal" >> }

FormInputs ==
    {[subject |-> e[1], description |-> e[2], start |-> r[1], end |-> r[2],
      priority |-> e[3]] : e \in FormEntries, r \in FormRanges}

(***************************************************************************)
(* StudyBlockForm.handleSubmit: the data handed to onSave                  *)
(***************************************************************************)
formIsValid(input) == trim(input.subject) # <<>>

formData(input) ==
    [subject |-> trim(input.subject),
     description |-> IF input.description = "" THEN NoDescription
                     ELSE input.description,
     start |-> input.start, end |-> input.end, priority |-> input.priority]

(***************************************************************************)
(* StudyTimetable.  No handler branches on the clock, so Spec leaves the   *)
(* clock where it is; SpecTimed lets it advance between the handlers.      *)
(***************************************************************************)
Init ==
    /\ storage = Absent
    /\ colorAssignments = EmptyMap
    /\ blocks = <<>>
    /\ editingBlock = Null
    /\ isFormOpen = FALSE
    /\ formError = Null
    /\ now = 0
    /\ nextId = 0
    /\ ret = [op |-> "init"]

\* time passes
Tick ==
    /\ now < MaxClock
    /\ now' = now + 1
    /\ UNCHANGED <<storage, colorAssignments, blocks, editingBlock, isFormOpen,
                   formError, nextId, ret>>

\* the page is (re)loaded: a fresh module instance and component, whose mount
\* effect loads the blocks
PageLoad ==
    LET l == loadBlocks(storage, EmptyMap)
    IN  /\ colorAssignments' = l.table
        /\ blocks' = IF l.threw THEN <<>> ELSE l.result
        /\ editingBlock' = Null
        /\ isFormOpen' = FALSE
        /\ formError' = Null
        /\ ret' = [op |-> "mount"]
        /\ UNCHANGED <<storage, now, nextId>>

openCreateForm ==
    /\ ~isFormOpen
    /\ editingBlock' = Null
    /\ formError' = Null
    /\ isFormOpen' = TRUE
    /\ ret' = [op |-> "openCreateForm"]
    /\ UNCHANGED <<storage, colorAssignments, blocks, now, nextId>>

openEditForm(block) ==
    /\ ~isFormOpen
    /\ editingBlock' = block
    /\ formError' = Null
    /\ isFormOpen' = TRUE
    /\ ret' = [op |-> "openEditForm"]
    /\ UNCHANGED <<storage, colorAssignments, blocks, now, nextId>>

closeForm ==
    /\ isFormOpen
    /\ isFormOpen' = FALSE
    /\ editingBlock' = Null
    /\ formError' = Null
    /\ ret' = [op |-> "closeForm"]
    /\ UNCHANGED <<storage, colorAssignments, blocks, now, nextId>>

\* a slip: no return after setFormError, so a rejected block is saved too
handleCreateBlock_noReturn(data, writeOk) ==
    LET c == createBlock(colorAssignments, data, nextId + 1, now)
        newBlock == c.block
        conflict == validateBlock(newBlock, blocks, NoId)
        newBlocks == Append(blocks, newBlock)
        s == saveBlocks(storage, newBlocks, writeOk)
    IN  /\ colorAssignments' = c.table
        /\ nextId' = nextId + 1
        /\ IF s.threw
           THEN /\ formError' = conflict
                /\ ret' = [op |-> "handleCreateBlock",
                           outcome |-> IF conflict # Null THEN "conflict" ELSE "error"]
                /\ UNCHANGED <<storage, blocks, isFormOpen>>
           ELSE /\ storage' = s.stored
                /\ blocks' = newBlocks
                /\ isFormOpen' = FALSE
                /\ formError' = Null
                /\ ret' = [op |-> "handleCreateBlock",
                           outcome |-> IF conflict # Null THEN "conflict" ELSE "saved"]
        /\ UNCHANGED <<editingBlock, now>>

\* the outcome of the write is drawn only when a write is attempted
handleCreateBlock(data, writeOk) ==
    LET c == createBlock(colorAssignments, data, nextId + 1, now)
        newBlock == c.block
        conflict == validateBlock(newBlock, blocks, NoId)
        newBlocks == Append(blocks, newBlock)
        s == saveBlocks(storage, newBlocks, writeOk)
    IN  /\ conflict # Null => writeOk
        /\ colorAssignments' = c.table
        /\ nextId' = nextId + 1
        /\ IF conflict # Null
           THEN /\ formError' = conflict
                /\ ret' = [op |-> "handleCreateBlock", outcome |-> "conflict"]
                /\ UNCHANGED <<storage, blocks, isFormOpen>>
           ELSE IF s.threw
           THEN /\ formError' = Null
                /\ ret' = [op |-> "handleCreateBlock", outcome |-> "error"]
                /\ UNCHANGED <<storage, blocks, isFormOpen>>
           ELSE /\ storage' = s.stored
                /\ blocks' = newBlocks
                /\ isFormOpen' = FALSE
                /\ formError' = Null
                /\ ret' = [op |-> "handleCreateBlock", outcome |-> "saved"]
        /\ UNCHANGED <<editingBlock, now>>

handleUpdateBlock(data, writeOk) ==
    LET u == updateBlock(colorAssignments, blocks, editingBlock.id, data, now)
        updatedBlock == u.block
        conflict == validateBlock(updatedBlock, blocks, editingBlock.id)
        newBlocks == [i \in DOMAIN blocks |->
                        IF blocks[i].id = editingBlock.id THEN updatedBlock
                        ELSE blocks[i]]
        s == saveBlocks(storage, newBlocks, writeOk)
    IN  /\ (u.threw \/ conflict # Null) => writeOk
        /\ colorAssignments' = u.table
        /\ IF u.threw
           THEN /\ formError' = Null
                /\ ret' = [op |-> "handleUpdateBlock", outcome |-> "error"]
                /\ UNCHANGED <<storage, blocks, isFormOpen, editingBlock>>
           ELSE IF conflict # Null
           THEN /\ formError' = conflict
                /\ ret' = [op |-> "handleUpdateBlock", outcome |-> "conflict"]
                /\ UNCHANGED <<storage, blocks, isFormOpen, editingBlock>>
           ELSE IF s.threw
           THEN /\ formError' = Null
                /\ ret' = [op |-> "handleUpdateBlock", outcome |-> "error"]
                /\ UNCHANGED <<storage, blocks, isFormOpen, editingBlock>>
           ELSE /\ storage' = s.stored
                /\ blocks' = newBlocks
                /\ isFormOpen' = FALSE
                /\ editingBlock' = Null
                /\ formError' = Null
                /\ ret' = [op |-> "handleUpdateBlock", outcome |-> "saved"]
        /\ UNCHANGED <<now, nextId>>

\* the form's Save button: StudyBlockForm.handleSubmit, then handleFormSubmit
handleFormSubmit(input, writeOk) ==
    /\ isFormOpen
    /\ formIsValid(input)
    /\ IF editingBlock # Null
       THEN handleUpdateBlock(formData(input), writeOk)
       ELSE handleCreateBlock(formData(input), writeOk)

\* a slip: every block of the subject of the block clicked is filtered out
handleDeleteBlock_bySubject(id, writeOk) ==
    LET newBlocks == SelectSeq(blocks, LAMBDA b :
                        \A i \in DOMAIN blocks :
                            blocks[i].id = id => b.subject # blocks[i].subject)
        s == saveBlocks(storage, newBlocks, writeOk)
    IN  /\ ~isFormOpen
        /\ IF s.threw
           THEN /\ ret' = [op |-> "handleDeleteBlock", outcome |-> "error", id |-> id]
                /\ UNCHANGED <<storage, blocks>>
           ELSE /\ storage' = s.stored
                /\ blocks' = newBlocks
                /\ ret' = [op |-> "handleDeleteBlock", outcome |-> "saved", id |-> id]
        /\ UNCHANGED <<colorAssignments, editingBlock, isFormOpen, formError,
                       now, nextId>>

\* a slip: setBlocks is called before the write, so a failed write is not
\* taken back
handleDeleteBlock_setBlocksFirst(id, writeOk) ==
    LET newBlocks == SelectSeq(blocks, LAMBDA b : b.id # id)
        s == saveBlocks(storage, newBlocks, writeOk)
    IN  /\ ~isFormOpen
        /\ blocks' = newBlocks
        /\ storage' = s.stored
        /\ ret' = [op |-> "handleDeleteBlock",
                   outcome |-> IF s.threw THEN "error" ELSE "saved", id |-> id]
        /\ UNCHANGED <<colorAssignments, editingBlock, isFormOpen, formError,
                       now, nextId>>

handleDeleteBlock(id, writeOk) ==
    LET newBlocks == SelectSeq(blocks, LAMBDA b : b.id # id)
        s == saveBlocks(storage, newBlocks, writeOk)
    IN  /\ ~isFormOpen
        /\ IF s.threw
           THEN /\ ret' = [op |-> "handleDeleteBlock", outcome |-> "error", id |-> id]
                /\ UNCHANGED <<storage, blocks>>
           ELSE /\ storage' = s.stored
                /\ blocks' = newBlocks
                /\ ret' = [op |-> "handleDeleteBlock", outcome |-> "saved", id |-> id]
        /\ UNCHANGED <<colorAssignments, editingBlock, isFormOpen, formError,
                       now, nextId>>

\* the Clear All button is rendered only when there are blocks
handleClearAll ==
    /\ ~isFormOpen
    /\ Len(blocks) > 0
    /\ storage' = clearAll.stored
    /\ colorAssignments' = clearAll.table
    /\ blocks' = <<>>
    /\ ret' = [op |-> "handleClearAll", outcome |-> "cleared"]
    /\ UNCHANGED <<editingBlock, isFormOpen, formError, now, nextId>>

Next ==
    \/ PageLoad
    \/ openCreateForm
    \/ \E b \in Range(blocks) : openEditForm(b)
    \/ closeForm
    \/ \E input \in FormInputs, writeOk \in BOOLEAN :
          /\ editingBlock = Null => nextId < MaxIds
          /\ handleFormSubmit(input, writeOk)
    \/ \E b \in Range(blocks), writeOk \in BOOLEAN : handleDeleteBlock(b.id, writeOk)
    \/ handleClearAll

Spec == Init /\ [][Next]_vars

SpecTimed == Init /\ [][Next \/ Tick]_vars

(***************************************************************************)
(* Properties of the handlers                                              *)
(***************************************************************************)
\* what a load of the stored item returns
persisted == loadBlocks(storage, EmptyMap).result

intervalsOverlap(a, b) == a.start < b.end /\ a.end > b.start

ValidCollection(bs) ==
    /\ \A i \in DOMAIN bs : bs[i].end > bs[i].start
    /\ \A i, j \in DOMAIN bs : i # j => ~intervalsOverlap(bs[i], bs[j])

\* C1: after any sequence of the create, update, delete and clear handlers
\* from empty storage, every stored block has end > start and no two distinct
\* stored blocks overlap.
C1_PersistedCollectionValid == ValidCollection(persisted)

\* two blocks are stored, the later one put next to the first by an update
C1_Witness ==
    /\ ret.op = "handleUpdateBlock"
    /\ ret.outcome = "saved"
    /\ Len(persisted) = 2
    /\ persisted[1].end = persisted[2].start

\* C5: a create or update attempt that validation rejects persists nothing
\* and leaves the in-memory collection as it was.
C5_RejectedAttemptChangesNothing ==
    [][(/\ ret'.op \in {"handleCreateBlock", "handleUpdateBlock"}
        /\ ret'.outcome = "conflict")
       => (storage' = storage /\ blocks' = blocks)]_vars

\* A is stored, B overlapping A was rejected, and the store holds only A
C5_Witness ==
    /\ ret.op = "handleCreateBlock"
    /\ ret.outcome = "conflict"
    /\ Len(persisted) = 1
    /\ formError # Null
    /\ formError.conflictingBlock = persisted[1]
    /\ blocks = persisted

(***************************************************************************)
(* validateBlock on its own: the arguments are drawn at the start and one  *)
(* call is made                                                            *)
(***************************************************************************)
MaxExisting == 2    \* existingBlocks holds at most this many blocks

PoolIds == {1, 2, 3}

PoolSubject(id) ==
    CASE id = 1 -> <<"M">>
      [] id = 2 -> <<"P">>
      [] OTHER -> <<"A">>

PoolBlock(id, r) ==
    [id |-> id, subject |-> PoolSubject(id), description |-> NoDescription,
     start |-> r[1], end |-> r[2], priority |-> "normal",
     color |-> SUBJECT_COLORS[id], createdAt |-> 0, updatedAt |-> 0]

\* stored blocks: distinct identifiers in any order, each with end after start
ExistingBlocks ==
    UNION { {bs \in [1..n -> {PoolBlock(id, r) : id \in PoolIds,
                                r \in {q \in Times \X Times : q[2] > q[1]}}] :
                \A i, j \in 1..n : i # j => bs[i].id # bs[j].id}
            : n \in 0..MaxExisting }

\* the candidate: a block being updated (identifier 1) or a new one, any range
Candidates == {PoolBlock(id, r) : id \in {1, 4}, r \in Times \X Times}

InitValidate ==
    /\ storage = Absent
    /\ colorAssignments = EmptyMap
    /\ blocks = <<>>
    /\ editingBlock = Null
    /\ isFormOpen = FALSE
    /\ formError = Null
    /\ now = 0
    /\ nextId = 0
    /\ \E c \in Candidates, e \in ExistingBlocks, x \in {NoId, 1, 2} :
          ret = [op |-> "arguments", block |-> c, existingBlocks |-> e, excludeId |-> x]

CallValidateBlock ==
    /\ ret.op = "arguments"
    /\ ret' = [op |-> "validateBlock", block |-> ret.block,
               existingBlocks |-> ret.existingBlocks, excludeId |-> ret.excludeId,
               result |-> validateBlock(ret.block, ret.existingBlocks, ret.excludeId)]
    /\ UNCHANGED <<storage, colorAssignments, blocks, editingBlock, isFormOpen,
                   formError, now, nextId>>

SpecValidate == InitValidate /\ [][CallValidateBlock]_vars

Validated == ret.op = "validateBlock"

\* the blocks of existingBlocks the claims call conflicting with the candidate
Conflicting(c, e, x) ==
    {i \in DOMAIN e : e[i].id # x /\ c.start < e[i].end /\ c.end > e[i].start}

\* C2: for a candidate with end > start, validate returns a ConflictError iff
\* some block of existingBlocks other than excludeId satisfies
\* candidate.start < x.end and candidate.end > x.start; touching blocks and the
\* excluded block are never reported, and with no such block the result is none.
C2_ConflictIffOverlap ==
    (Validated /\ ret.block.end > ret.block.start) =>
        LET hit == Conflicting(ret.block, ret.existingBlocks, ret.excludeId)
        IN  /\ (ret.result # Null) <=> (hit # {})
            /\ ret.result # Null =>
                 \E i \in hit : ret.result.conflictingBlock = ret.existingBlocks[i]

\* the first block ends exactly when the candidate starts and is passed over;
\* the second overlaps it and is reported
C2_Witness ==
    /\ Validated
    /\ ret.block.end > ret.block.start
    /\ Len(ret.existingBlocks) = 2
    /\ ret.existingBlocks[1].end = ret.block.start
    /\ ret.existingBlocks[1].id # ret.excludeId
    /\ ret.result # Null
    /\ ret.result.conflictingBlock = ret.existingBlocks[2]

\* C3: whenever candidate.end <= candidate.start, validate returns the range
\* error referencing the candidate itself, whatever existingBlocks and
\* excludeId are, even when the candidate also overlaps an existing block.
C3_RangeErrorFirst ==
    (Validated /\ ret.block.end <= ret.block.start) =>
        /\ ret.result # Null
        /\ ret.result.message = [text |-> "End time must be after start time"]
        /\ ret.result.conflictingBlock = ret.block

\* an empty range lying inside an existing block gets the range error
C3_Witness ==
    /\ Validated
    /\ ret.block.end = ret.block.start
    /\ Conflicting(ret.block, ret.existingBlocks, ret.excludeId) # {}
    /\ ret.result # Null
    /\ ret.result.conflictingBlock = ret.block

permuted(e, p) == [i \in DOMAIN e |-> e[p[i]]]

\* C4: when several non-excluded blocks overlap the candidate, the block
\* reported is the first of them in the order of existingBlocks; reordering
\* existingBlocks never changes whether a conflict is reported.
C4_FirstFoundInGivenOrder ==
    (Validated /\ ret.block.end > ret.block.start) =>
        LET hit == Conflicting(ret.block, ret.existingBlocks, ret.excludeId)
        IN  /\ hit # {} =>
                 /\ ret.result # Null
                 /\ \E i \in hit :
                       /\ \A j \in hit : i <= j
                       /\ ret.result.conflictingBlock = ret.existingBlocks[i]
            /\ \A p \in Permutations(DOMAIN ret.existingBlocks) :
                 (validateBlock(ret.block, permuted(ret.existingBlocks, p),
                                ret.excludeId) = Null) <=> (ret.result = Null)

\* two blocks overlap the candidate, the one reported is first in the list
\* though it starts later, and the reversed list reports the other one
C4_Witness ==
    /\ Validated
    /\ Cardinality(Conflicting(ret.block, ret.existingBlocks, ret.excludeId)) = 2
    /\ ret.result # Null
    /\ ret.result.conflictingBlock = ret.existingBlocks[1]
    /\ ret.existingBlocks[1].start > ret.existingBlocks[2].start
    /\ validateBlock(ret.block, <<ret.existingBlocks[2], ret.existingBlocks[1]>>,
                     ret.excludeId).conflictingBlock = ret.existingBlocks[2]

(***************************************************************************)
(* The store on its own: a caller other than the component calls           *)
(* loadBlocks, saveBlocks, createBlock and clearAll in any order, on a      *)
(* device whose item may have been left in any condition.                  *)
(***************************************************************************)
MaxStored == 2      \* a collection handed to saveBlocks holds at most this many

StockBlocks ==
    { [id |-> 1, subject |-> <<"M">>, description |-> NoDescription,
       start |-> 0, end |-> 1, priority |-> "normal", color |-> "subject-blue",
       createdAt |-> 0, updatedAt |-> 0],
      [id |-> 2, subject |-> <<"m", " ">>, description |-> "notes",
       start |-> 1, end |-> 2, priority |-> "high", color |-> "subject-green",
       createdAt |-> 0, updatedAt |-> 1],
      [id |-> 3, subject |-> <<"A">>, description |-> NoDescription,
       start |-> 0, end |-> 2, priority |-> "normal", color |-> "subject-purple",
       createdAt |-> 1, updatedAt |-> 1] }

StockSeqs == UNION { [1..n -> StockBlocks] : n \in 0..MaxStored }

JsonText(v) == [kind |-> "text", json |-> v]

\* what a device may hold under the key before the first call
InitialItems ==
    { Absent, EmptyText, GarbageText, JsonText(JsonObject), JsonText(JsonNull),
      JsonText([type |-> "array", items |-> <<>>]),
      JsonText([type |-> "array",
                items |-> << stringifyBlock(CHOOSE b \in StockBlocks : b.id = 3),
                             JsonNull >>]),
      JSONstringify(<< CHOOSE b \in StockBlocks : b.id = 3 >>) }

\* what a caller hands to createBlock: subjects as typed, not trimmed
StoreData ==
    {[subject |-> s, description |-> NoDescription, start |-> r[1], end |-> r[2],
      priority |-> "normal"] :
        s \in { <<"M">>, <<" ", "m">>, <<"P">>, <<"A", " ">> },
        r \in { <<0, 1>>, <<1, 0>> }}

InitStore ==
    /\ storage \in InitialItems
    /\ colorAssignments = EmptyMap
    /\ blocks = <<>>
    /\ editingBlock = Null
    /\ isFormOpen = FALSE
    /\ formError = Null
    /\ now = 0
    /\ nextId = 0
    /\ ret = [op |-> "init"]

appUnchanged == UNCHANGED <<blocks, editingBlock, isFormOpen, formError>>

StoreLoad ==
    LET l == loadBlocks(storage, colorAssignments)
    IN  /\ colorAssignments' = l.table
        /\ ret' = [op |-> "loadBlocks", threw |-> l.threw, result |-> l.result]
        /\ UNCHANGED <<storage, now, nextId>>
        /\ appUnchanged

StoreSave(bs, writeOk) ==
    LET s == saveBlocks(storage, bs, writeOk)
    IN  /\ storage' = s.stored
        /\ ret' = [op |-> "saveBlocks", threw |-> s.threw, blocks |-> bs]
        /\ UNCHANGED <<colorAssignments, now, nextId>>
        /\ appUnchanged

StoreCreate(data) ==
    LET c == createBlock(colorAssignments, data, nextId + 1, now)
    IN  /\ nextId < MaxIds
        /\ nextId' = nextId + 1
        /\ colorAssignments' = c.table
        /\ ret' = [op |-> "createBlock", threw |-> FALSE, data |-> data,
                   block |-> c.block]
        /\ UNCHANGED <<storage, now>>
        /\ appUnchanged

\* a slip: the stored item is removed but the assignments are kept
StoreClear_keepsTable ==
    /\ storage' = clearAll.stored
    /\ ret' = [op |-> "clearAll", threw |-> FALSE]
    /\ UNCHANGED <<colorAssignments, now, nextId>>
    /\ appUnchanged

StoreClear ==
    /\ storage' = clearAll.stored
    /\ colorAssignments' = clearAll.table
    /\ ret' = [op |-> "clearAll", threw |-> FALSE]
    /\ UNCHANGED <<now, nextId>>
    /\ appUnchanged

NextStore ==
    \/ StoreLoad
    \/ \E bs \in StockSeqs, writeOk \in BOOLEAN : StoreSave(bs, writeOk)
    \/ \E data \in StoreData : StoreCreate(data)
    \/ StoreClear

SpecStore == InitStore /\ [][NextStore]_vars

\* C6: a save whose write succeeds makes a subsequent load return exactly the
\* saved sequence, in order, whatever was stored before, so the later of two
\* saves wins; a save whose write fails raises an error and leaves the stored
\* item, and so what a load returns, as it was.
C6_SaveAllOrNothing ==
    [][/\ (ret'.op = "saveBlocks" /\ ~ret'.threw) =>
              loadBlocks(storage', colorAssignments').result = ret'.blocks
       /\ (ret'.op = "saveBlocks" /\ ret'.threw) => storage' = storage
       /\ (ret.op = "saveBlocks" /\ ~ret.threw /\ ret'.op = "loadBlocks") =>
              ret'.result = ret.blocks
      ]_vars

\* a load returns two blocks, one without and one with a description: no
\* initial item holds two, so they were saved by a call before
C6_Witness ==
    /\ ret.op = "loadBlocks"
    /\ Len(ret.result) = 2
    /\ ret.result[1].description = NoDescription
    /\ ret.result[2].description = "notes"

unusable(item) ==
    \/ item.kind \in {"absent", "empty", "garbage"}
    \/ ~IsArray(item.json)

\* C7: load never fails; on a missing key, an unparsable text or a text that
\* parses to something other than an array it returns the empty sequence, and
\* it leaves the stored item as it was.
C7_LoadNeverFails ==
    [][ret'.op = "loadBlocks" =>
          /\ ~ret'.threw
          /\ storage' = storage
          /\ unusable(storage) => ret'.result = <<>>
      ]_vars

\* a load of an unparsable text has returned the empty sequence
C7_Witness ==
    /\ ret.op = "loadBlocks"
    /\ storage = GarbageText
    /\ ~ret.threw
    /\ ret.result = <<>>

\* C8: immediately after load returns R the colour table equals rebuild(R),
\* whatever it held before; after a load that returns the empty sequence the
\* table is empty.
C8_LoadRebuildsTable ==
    ret.op = "loadBlocks" => colorAssignments = rebuildColorAssignments(ret.result)

(***************************************************************************)
(* The colour table against the whole palette: the device holds a          *)
(* collection of up to as many subjects as there are tokens; the caller    *)
(* loads it, creates blocks and clears.                                    *)
(***************************************************************************)
PaletteSubjects ==
    << <<"a">>, <<"b">>, <<"c">>, <<"d">>, <<"e">>, <<"f">>, <<"g">>, <<"h">>,
       <<"i">>, <<"j">>, <<"k">> >>

\* a stored block of the i-th subject, its token shifted along the palette
PaletteBlock(i, shift) ==
    [id |-> 100 + i, subject |-> PaletteSubjects[i], description |-> NoDescription,
     start |-> 2 * i, end |-> 2 * i + 1, priority |-> "normal",
     color |-> SUBJECT_COLORS[((i - 1 + shift) % Len(SUBJECT_COLORS)) + 1],
     createdAt |-> 0, updatedAt |-> 0]

PaletteCollections ==
    {[i \in 1..n |-> PaletteBlock(i, shift)] :
        n \in 0..Len(SUBJECT_COLORS), shift \in 0..2}

\* subjects as typed: the listed ones and spellings of them
ColorData ==
    {[subject |-> s, description |-> NoDescription, start |-> 0, end |-> 1,
      priority |-> "normal"] :
        s \in Range(PaletteSubjects)
                \cup { <<"A">>, <<" ", "B", " ">>, <<"k", " ">> }}

InitColor ==
    /\ storage \in {JSONstringify(bs) : bs \in PaletteCollections}
    /\ colorAssignments = EmptyMap
    /\ blocks = <<>>
    /\ editingBlock = Null
    /\ isFormOpen = FALSE
    /\ formError = Null
    /\ now = 0
    /\ nextId = 0
    /\ ret = [op |-> "init"]

NextColor ==
    \/ StoreLoad
    \/ \E data \in ColorData : StoreCreate(data)
    \/ StoreClear

SpecColor == InitColor /\ [][NextColor]_vars

IsNormalized(k) ==
    /\ \A i \in DOMAIN k : k[i] \notin {"A", "B", "M", "P"}
    /\ k # <<>> => (k[1] # " " /\ k[Len(k)] # " ")

\* the token the claims expect for a subject that has no assignment in m
ExpectedNewToken(m, token) ==
    LET used == {m[k] : k \in DOMAIN m}
        P == SUBJECT_COLORS
    IN  IF \E i \in DOMAIN P : P[i] \notin used
        THEN \E i \in DOMAIN P :
                /\ P[i] \notin used
                /\ \A j \in 1..(i - 1) : P[j] \in used
                /\ token = P[i]
        ELSE token = P[1]

\* C9: colorFor normalizes the subject (lowercase, trim); an assigned subject
\* gets its token back and the table stays as it is; an unassigned one is
\* assigned the first palette token that is no subject's value, or the first
\* palette token when all are assigned; an assignment never changes until the
\* next rebuild or clear.
C9_ColorForFirstUnused ==
    [][/\ ret'.op = "createBlock" =>
            LET n == normalizedSubject(ret'.data.subject)
                m == colorAssignments
            IN  /\ n \in DOMAIN m =>
                      (ret'.block.color = m[n] /\ colorAssignments' = m)
                /\ n \notin DOMAIN m =>
                      /\ ExpectedNewToken(m, ret'.block.color)
                      /\ DOMAIN colorAssignments' = DOMAIN m \cup {n}
                      /\ colorAssignments'[n] = ret'.block.color
                /\ \A k \in DOMAIN colorAssignments' : IsNormalized(k)
       /\ ret'.op \notin {"loadBlocks", "clearAll"} =>
            \A k \in DOMAIN colorAssignments :
                /\ k \in DOMAIN colorAssignments'
                /\ colorAssignments'[k] = colorAssignments[k]
      ]_vars

\* every token is assigned and an eleventh subject, typed with a space after
\* it, has been given the first token
C9_Witness ==
    /\ ret.op = "createBlock"
    /\ Cardinality(DOMAIN colorAssignments) = Len(SUBJECT_COLORS) + 1
    /\ ret.data.subject = <<"k", " ">>
    /\ ret.block.color = SUBJECT_COLORS[1]
    /\ colorAssignments[<<"k">>] = SUBJECT_COLORS[1]

(***************************************************************************)
(* The component against the whole palette: from empty storage the user    *)
(* adds a block for each listed subject in turn, in one of two adjacent    *)
(* slots, and deletes blocks.  (Subjects are told apart by equality only,  *)
(* so the order in which new ones are met is fixed.)                       *)
(***************************************************************************)
PaletteRanges == { <<0, 1>>, <<1, 2>> }

PaletteInput(i, r) ==
    [subject |-> PaletteSubjects[i], description |-> "", start |-> r[1],
     end |-> r[2], priority |-> "normal"]

NextPalette ==
    \/ openCreateForm
    \/ closeForm
    \/ \E r \in PaletteRanges, writeOk \in BOOLEAN :
          /\ nextId < Len(PaletteSubjects)
          /\ handleFormSubmit(PaletteInput(nextId + 1, r), writeOk)
    \/ \E b \in Range(blocks), writeOk \in BOOLEAN : handleDeleteBlock(b.id, writeOk)

SpecPalette == Init /\ [][NextPalette]_vars

subjectsOf(bs) == {normalizedSubject(bs[i].subject) : i \in DOMAIN bs}

\* C10: whenever the current collection holds at most as many distinct
\* normalized subjects as the palette has tokens, no two of its blocks with
\* different normalized subjects have the same colour.
C10_ColorUniqueness ==
    Cardinality(subjectsOf(blocks)) <= Len(SUBJECT_COLORS) =>
        \A i, j \in DOMAIN blocks :
            normalizedSubject(blocks[i].subject) # normalizedSubject(blocks[j].subject)
                => blocks[i].color # blocks[j].color

(***************************************************************************)
(* One colour per normalized subject, in the component                     *)
(***************************************************************************)
\* C11: after any sequence of create, update, delete, load and clear from
\* empty storage, any two blocks of the collection whose subjects are equal
\* after lowercasing and trimming have the identical colour.
C11_SameSubjectSameColor ==
    \A i, j \in DOMAIN blocks :
        trim(toLowerCase(blocks[i].subject)) = trim(toLowerCase(blocks[j].subject))
            => blocks[i].color = blocks[j].color

\* two stored blocks spelled "M" and "m" wear one colour
C11_Witness ==
    /\ Len(blocks) = 2
    /\ blocks[1].subject = <<"M">>
    /\ blocks[2].subject = <<"m">>
    /\ blocks[1].color = blocks[2].color
    /\ blocks = persisted

(***************************************************************************)
(* The storage API under a caller that keeps the collection itself         *)
(***************************************************************************)
\* the Partial<StudyBlock> values a caller passes to updateBlock
UpdatePartials ==
    { [subject |-> <<"m">>],
      [subject |-> <<"P">>, id |-> MaxIds + 1, createdAt |-> MaxClock + 1],
      [color |-> "subject-red", priority |-> "high"] }

\* what the caller hands to createBlock: a plain block, one whose subject is
\* not trimmed and whose range is inverted, one that overlaps the first
ApiData ==
    { [subject |-> <<"M">>, description |-> NoDescription, start |-> 0,
       end |-> 1, priority |-> "normal"],
      [subject |-> <<"A", " ">>, description |-> NoDescription, start |-> 1,
       end |-> 0, priority |-> "normal"],
      [subject |-> <<"m">>, description |-> "notes", start |-> 0,
       end |-> MaxTime, priority |-> "high"] }

InitApi ==
    /\ storage = JSONstringify(<< CHOOSE b \in StockBlocks : b.id = 3 >>)
    /\ colorAssignments = EmptyMap
    /\ blocks = <<>>
    /\ editingBlock = Null
    /\ isFormOpen = FALSE
    /\ formError = Null
    /\ now = 0
    /\ nextId = 0
    /\ ret = [op |-> "init"]

\* the clock advances between two calls
ApiTick ==
    /\ now < MaxClock
    /\ now' = now + 1
    /\ ret' = [op |-> "tick"]
    /\ UNCHANGED <<storage, colorAssignments, nextId>>
    /\ appUnchanged

\* a slip: the block found is changed in place, inside the caller's array
ApiUpdate_inPlace(id, updates) ==
    LET u == updateBlock(colorAssignments, blocks, id, updates, now)
    IN  /\ colorAssignments' = u.table
        /\ ret' = [op |-> "updateBlock", threw |-> u.threw, id |-> id,
                   updates |-> updates, block |-> u.block]
        /\ blocks' = IF u.threw THEN blocks
                     ELSE [blocks EXCEPT ![findIndex(blocks, id)] = u.block]
        /\ UNCHANGED <<storage, now, nextId, editingBlock, isFormOpen, formError>>

\* updateBlock(blocks, id, updates) on the collection the caller holds
ApiUpdate(id, updates) ==
    LET u == updateBlock(colorAssignments, blocks, id, updates, now)
    IN  /\ colorAssignments' = u.table
        /\ ret' = [op |-> "updateBlock", threw |-> u.threw, id |-> id,
                   updates |-> updates, block |-> u.block]
        /\ UNCHANGED <<storage, now, nextId>>
        /\ appUnchanged

\* validateBlock(block, blocks, excludeId) for a block of the collection
ApiValidate(block, excludeId) ==
    /\ ret' = [op |-> "validateBlock", block |-> block, excludeId |-> excludeId,
               result |-> validateBlock(block, blocks, excludeId)]
    /\ UNCHANGED <<storage, colorAssignments, now, nextId>>
    /\ appUnchanged

\* getSubjectStats(blocks, startDate, endDate)
ApiStats(startDate, endDate) ==
    /\ ret' = [op |-> "getSubjectStats", startDate |-> startDate,
               endDate |-> endDate,
               result |-> getSubjectStats(blocks, startDate, endDate)]
    /\ UNCHANGED <<storage, colorAssignments, now, nextId>>
    /\ appUnchanged

\* the caller appends the block createBlock returned to its collection, as
\* the component does
ApiKeep ==
    /\ ret.op = "createBlock"
    /\ findIndex(blocks, ret.block.id) = 0
    /\ blocks' = Append(blocks, ret.block)
    /\ ret' = [op |-> "keep"]
    /\ UNCHANGED <<storage, colorAssignments, now, nextId, editingBlock,
                   isFormOpen, formError>>

NextApi ==
    \/ \E data \in ApiData : StoreCreate(data)
    \/ \E id \in 1..(MaxIds + 1), updates \in UpdatePartials : ApiUpdate(id, updates)
    \/ \E i \in DOMAIN blocks : ApiValidate(blocks[i], NoId)
    \/ ApiStats(0, MaxTime - 1)
    \/ ApiKeep
    \/ ApiTick

SpecApi == InitApi /\ [][NextApi]_vars

\* the same caller, who may also call clearAll and go on with its collection
NextApiClear ==
    \/ NextApi
    \/ StoreClear

SpecApiClear == InitApi /\ [][NextApiClear]_vars

\* the block of the caller's collection an updateBlock call was aimed at
currentOf(id) == blocks[findIndex(blocks, id)]

\* the colour the claims call colorFor(subject), on the table m
ColorFor(m, subject, token) ==
    IF normalizedSubject(subject) \in DOMAIN m
    THEN token = m[normalizedSubject(subject)]
    ELSE ExpectedNewToken(m, token)

\* C12: update returns a block whose colour is colorFor(partial.subject) when
\* the partial fields hold a subject whose normalized form differs from the
\* normalized form of the current subject, and the existing block's colour in
\* every other case (subject absent, or differing only in case or surrounding
\* whitespace).
C12_UpdateColor ==
    [][(ret'.op = "updateBlock" /\ ~ret'.threw) =>
          IF /\ "subject" \in DOMAIN ret'.updates
             /\ normalizedSubject(ret'.updates.subject)
                    # normalizedSubject(currentOf(ret'.id).subject)
          THEN ColorFor(colorAssignments, ret'.updates.subject, ret'.block.color)
          ELSE ret'.block.color = currentOf(ret'.id).color
      ]_vars

\* C13: update always preserves the block's id: the returned block's id is the
\* id of the block updated, even when the partial fields supply another id.
C13_UpdatePreservesId ==
    [][(ret'.op = "updateBlock" /\ ~ret'.threw) =>
          /\ ret'.block.id = ret'.id
          /\ ret'.block.id = currentOf(ret'.id).id
      ]_vars

\* an update whose partial fields carried a foreign id returned the old id
C13_Witness ==
    /\ ret.op = "updateBlock"
    /\ ~ret.threw
    /\ "id" \in DOMAIN ret.updates
    /\ ret.updates.id # ret.id
    /\ ret.block.id = ret.id
    /\ ret.block.subject = ret.updates.subject

\* C14: with a clock that never goes back, under any updates with any partial
\* fields createdAt never changes from the value create gave it, and
\* updatedAt never decreases and is the instant of the latest create or update.
C14_Timestamps ==
    [][/\ ret'.op = "createBlock" =>
              /\ ret'.block.createdAt = now
              /\ ret'.block.updatedAt = now
       /\ (ret'.op = "updateBlock" /\ ~ret'.threw) =>
              /\ ret'.block.createdAt = currentOf(ret'.id).createdAt
              /\ ret'.block.updatedAt >= currentOf(ret'.id).updatedAt
              /\ ret'.block.updatedAt = now
      ]_vars

\* C15: update with an id that no block of the given collection has fails with
\* a not-found error and changes nothing: no block is returned, and the colour
\* table, the persisted data and the collection are as before the call, even
\* when the partial fields name a new subject.
C15_UpdateUnknownId ==
    [][(ret'.op = "updateBlock" /\ findIndex(blocks, ret'.id) = 0) =>
          /\ ret'.threw
          /\ ret'.block = Null
          /\ colorAssignments' = colorAssignments
          /\ storage' = storage
          /\ blocks' = blocks
      ]_vars

\* an update of an unknown id in a non-empty collection failed although its
\* partial fields named a subject the table has no colour for
C15_Witness ==
    /\ ret.op = "updateBlock"
    /\ ret.threw
    /\ blocks # <<>>
    /\ findIndex(blocks, ret.id) = 0
    /\ "subject" \in DOMAIN ret.updates
    /\ normalizedSubject(ret.updates.subject) \notin DOMAIN colorAssignments

\* C16: create never rejects: for any fields, also with end <= start or a range
\* overlapping blocks of the collection, it returns a block that copies the
\* fields, whose id differs from the id of every block created before, whose
\* createdAt and updatedAt are the current instant and whose colour is
\* colorFor(subject).
C16_CreateAlwaysConstructs ==
    [][ret'.op = "createBlock" =>
          /\ ~ret'.threw
          /\ \A f \in DOMAIN ret'.data : ret'.block[f] = ret'.data[f]
          /\ ret'.block.id \notin 1..nextId
          /\ \A i \in DOMAIN blocks : blocks[i].id # ret'.block.id
          /\ ret'.block.createdAt = now
          /\ ret'.block.updatedAt = now
          /\ ColorFor(colorAssignments, ret'.data.subject, ret'.block.color)
      ]_vars

\* a block was created, at a later instant than the first, that validateBlock
\* would have rejected against the caller's collection
C16_Witness ==
    /\ ret.op = "createBlock"
    /\ blocks # <<>>
    /\ validateBlock(ret.block, blocks, NoId) # Null
    /\ ret.block.id > 1
    /\ ret.block.createdAt > 0

\* C17: validate, subjectStats, create and update never touch the persisted
\* storage and never modify the collection they are given; validate and
\* subjectStats also leave the colour table as it is, so that the same call
\* made again returns the same result and leaves the state unchanged.
C17_PureOperations ==
    [][/\ ret'.op \in {"validateBlock", "getSubjectStats", "createBlock", "updateBlock"} =>
              /\ storage' = storage
              /\ blocks' = blocks
       /\ ret'.op \in {"validateBlock", "getSubjectStats"} =>
              /\ colorAssignments' = colorAssignments
              /\ nextId' = nextId
       /\ ret'.op = "validateBlock" =>
              ret'.result = validateBlock(ret'.block, blocks', ret'.excludeId)
       /\ ret'.op = "getSubjectStats" =>
              ret'.result = getSubjectStats(blocks', ret'.startDate, ret'.endDate)
      ]_vars

\* an update returned a changed block and a new table entry, and the caller's
\* collection still holds the block as it was
C17_Witness ==
    /\ ret.op = "updateBlock"
    /\ ~ret.threw
    /\ ret.block.subject # currentOf(ret.id).subject
    /\ normalizedSubject(ret.block.subject) \in DOMAIN colorAssignments
    /\ storage # Absent

(***************************************************************************)
(* rebuildColorAssignments, through the loads that run it to the end       *)
(***************************************************************************)
\* the stored item parses to a value whose elements, if any, are all blocks,
\* so that loadBlocks calls rebuildColorAssignments and it returns
rebuildCompletes(item) ==
    /\ item.kind = "text"
    /\ IsArray(item.json) => firstNull(item.json.items) = 0

\* index of the first block of bs whose normalized subject is k
firstOf(bs, k) == Min({i \in DOMAIN bs : normalizedSubject(bs[i].subject) = k})

\* C18: rebuild(blocks) clears every previous assignment and then assigns, for
\* each normalized subject among the blocks, the colour of the first block of
\* that subject; the result does not depend on the table before, and a second
\* rebuild of the same blocks changes nothing.
C18_RebuildFirstWins ==
    [][(ret'.op = "loadBlocks" /\ rebuildCompletes(storage)) =>
          /\ DOMAIN colorAssignments' =
                 {normalizedSubject(ret'.result[i].subject) : i \in DOMAIN ret'.result}
          /\ \A k \in DOMAIN colorAssignments' :
                 colorAssignments'[k] = ret'.result[firstOf(ret'.result, k)].color
          /\ loadBlocks(storage, EmptyMap).table = colorAssignments'
          /\ loadBlocks(storage', colorAssignments').table = colorAssignments'
      ]_vars

\* a load over assignments made by earlier creates returned two blocks of one
\* normalized subject in two colours, and the table holds the first one's
C18_Witness ==
    /\ ret.op = "loadBlocks"
    /\ nextId > 0
    /\ Len(ret.result) = 2
    /\ normalizedSubject(ret.result[1].subject) = normalizedSubject(ret.result[2].subject)
    /\ ret.result[1].color # ret.result[2].color
    /\ colorAssignments = (normalizedSubject(ret.result[1].subject) :> ret.result[1].color)

\* C19: clear removes all persisted data and empties the colour table: after
\* it a load returns the empty sequence and the next create, of any subject,
\* receives the first palette token.
C19_ClearRemovesEverything ==
    [][/\ ret'.op = "clearAll" =>
              /\ storage' = Absent
              /\ colorAssignments' = EmptyMap
              /\ loadBlocks(storage', colorAssignments').result = <<>>
       /\ (ret.op = "clearAll" /\ ret'.op = "loadBlocks") =>
              /\ ret'.result = <<>>
              /\ colorAssignments' = EmptyMap
       /\ (ret.op = "clearAll" /\ ret'.op = "createBlock") =>
              ret'.block.color = SUBJECT_COLORS[1]
      ]_vars

\* clearAll has run after at least one block was created
C19_Witness ==
    /\ ret.op = "clearAll"
    /\ nextId > 0
    /\ storage = Absent
    /\ colorAssignments = EmptyMap

(***************************************************************************)
(* getSubjectStats as a function of its arguments                          *)
(***************************************************************************)
StatsTimes == 0..(MaxTime + 1)

\* blocks of two subjects that differ in case only, one and a half hours long
\* at most when MaxTime is 2
StatsBlocks ==
    {blk \in
     {[id |-> 1, subject |-> s, description |-> NoDescription, start |-> a,
      end |-> b, priority |-> "normal", color |-> "subject-blue",
      createdAt |-> 0, updatedAt |-> 0] :
        s \in { <<"P">>, <<"p">> },
        a \in StatsTimes, b \in StatsTimes} : blk.end > blk.start}

InitStats ==
    /\ storage = Absent
    /\ colorAssignments = EmptyMap
    /\ blocks \in UNION { [1..n -> StatsBlocks] : n \in 0..MaxExisting }
    /\ editingBlock = Null
    /\ isFormOpen = FALSE
    /\ formError = Null
    /\ now = 0
    /\ nextId = 0
    /\ ret \in {[op |-> "arguments", startDate |-> a, endDate |-> b] :
                  a \in StatsTimes, b \in StatsTimes}

CallGetSubjectStats ==
    /\ ret.op = "arguments"
    /\ ret' = [op |-> "getSubjectStats", startDate |-> ret.startDate,
               endDate |-> ret.endDate,
               result |-> getSubjectStats(blocks, ret.startDate, ret.endDate)]
    /\ UNCHANGED <<storage, colorAssignments, blocks, editingBlock, isFormOpen,
                   formError, now, nextId>>

SpecStats == InitStats /\ [][CallGetSubjectStats]_vars

\* the blocks whose start lies in the window, both ends included
InWindow(bs, a, b) == {i \in DOMAIN bs : a <= bs[i].start /\ bs[i].start <= b}

\* the half hours the blocks of the index set I last, in full
RECURSIVE FullHalfHours(_, _)
FullHalfHours(bs, I) ==
    IF I = {} THEN 0
    ELSE LET i == CHOOSE x \in I : TRUE
         IN  (bs[i].end - bs[i].start) + FullHalfHours(bs, I \ {i})

\* C20: subjectStats(blocks, windowStart, windowEnd) maps exactly the distinct
\* subjects as typed of the blocks with windowStart <= start <= windowEnd, each
\* to the sum of the full, unclipped durations in hours of those blocks; a
\* block that starts outside the window contributes nothing.
C20_SubjectStats ==
    ret.op = "getSubjectStats" =>
        LET I == InWindow(blocks, ret.startDate, ret.endDate)
        IN  /\ DOMAIN ret.result = {blocks[i].subject : i \in I}
            /\ \A k \in DOMAIN ret.result :
                   /\ ret.result[k].half \in {0, 1}
                   /\ 2 * ret.result[k].whole + ret.result[k].half
                          = FullHalfHours(blocks, {i \in I : blocks[i].subject = k})

\* one block of an hour and a half that starts with the window and ends after
\* it, and one that starts after the window has ended: the statistics are 1.5
\* hours for the subject of the first and nothing else
C20_Witness ==
    /\ ret.op = "getSubjectStats"
    /\ Len(blocks) = 2
    /\ blocks[1].subject = <<"P">>
    /\ blocks[1].end - blocks[1].start = 3
    /\ blocks[1].start = ret.startDate
    /\ blocks[1].end > ret.endDate
    /\ blocks[2].subject = <<"p">>
    /\ blocks[2].start > ret.endDate
    /\ ret.endDate > ret.startDate
    /\ ret.result = (<<"P">> :> [whole |-> 1, half |-> 1])

(***************************************************************************)
(* The component on a device that may hold an unreadable item             *)
(***************************************************************************)
\* what the device holds under the key: nothing, or text that is no JSON
DeviceItems == { Absent, GarbageText }

\* the script has run, the component has not mounted yet
InitDevice ==
    /\ storage \in DeviceItems
    /\ colorAssignments = EmptyMap
    /\ blocks = <<>>
    /\ editingBlock = Null
    /\ isFormOpen = FALSE
    /\ formError = Null
    /\ now = 0
    /\ nextId = 0
    /\ ret = [op |-> "init"]

\* the mount effect runs first; the handlers are those of Next, and the delete
\* handler is also called with an id the collection may not hold
NextDevice ==
    \/ PageLoad
    \/ /\ ret.op # "init"
       /\ Next
    \/ /\ ret.op # "init"
       /\ \E writeOk \in BOOLEAN : handleDeleteBlock(MaxIds, writeOk)

SpecDevice == InitDevice /\ [][NextDevice]_vars

\* the n-th smallest element of a set of indices
nth(I, n) == CHOOSE i \in I : Cardinality({j \in I : j < i}) = n - 1

C21_WitnessUnknown ==
    /\ ret.op = "handleDeleteBlock"
    /\ ret.outcome = "saved"
    /\ Len(persisted) = 1
    /\ findIndex(persisted, ret.id) = 0
    /\ nextId = 1

\* C22: after the initial load and after every completed create, update,
\* delete or clear handler, also one whose save throws and one rejected by
\* validation, the in-memory block list equals the sequence a load would
\* return at that moment.
C22_MemoryEqualsPersisted == ret.op # "init" => blocks = persisted

\* a delete whose write failed, on a device whose unreadable item was replaced
\* by a saved block: the block is still in memory and in the store
C22_Witness ==
    /\ ret.op = "handleDeleteBlock"
    /\ ret.outcome = "error"
    /\ Len(blocks) = 1
    /\ ret.id = blocks[1].id
    /\ blocks = persisted

\* the component has mounted over an unreadable item and a create was
\* rejected by validation: memory and a load are both empty
C22_WitnessUnreadable ==
    /\ storage = GarbageText
    /\ ret.op = "handleCreateBlock"
    /\ ret.outcome = "conflict"
    /\ blocks = <<>>

(***************************************************************************)
(* The week of the statistics and the week of the weekly view.  An instant *)
(* is a number of slots; a day has SlotsPerDay of them; day 0 is a Sunday. *)
(***************************************************************************)
SlotsPerDay == 2    \* instants of a day at which a block may start
MaxDay == 6         \* the selected date is one of the days 7..(7 + MaxDay)

\* Date.getDay(): 0 for Sunday .. 6 for Saturday
getDay(d) == (d \div SlotsPerDay) % 7

\* Date.setDate(getDate() + n): the time of day is kept
addDays(d, n) == d + n * SlotsPerDay

startOfDay(d) == (d \div SlotsPerDay) * SlotsPerDay

\* the last instant of the day of d
endOfDay(d) == startOfDay(d) + SlotsPerDay - 1

\* date-fns startOfWeek(date, {weekStartsOn: 1})
startOfWeek(d) == startOfDay(addDays(d, 0 - ((getDay(d) + 6) % 7)))

\* date-fns endOfWeek(date, {weekStartsOn: 1})
endOfWeek(d) == endOfDay(addDays(startOfWeek(d), 6))

\* eachDayOfInterval({start, end}): the start of every day from start to end
getWeekDays(d) ==
    [i \in 1..(((endOfWeek(d) - startOfWeek(d)) \div SlotsPerDay) + 1) |->
        addDays(startOfWeek(d), i - 1)]

isSameDayAsDate(a, day) == startOfDay(a) = startOfDay(day)

\* Array.sort by start, as an insertion into a sorted sequence
RECURSIVE sortByStart(_)
sortByStart(bs) ==
    IF bs = <<>> THEN <<>>
    ELSE LET rest == sortByStart(Tail(bs))
             before == SelectSeq(rest, LAMBDA b : b.start < Head(bs).start)
             after == SelectSeq(rest, LAMBDA b : b.start >= Head(bs).start)
         IN  before \o <<Head(bs)>> \o after

\* WeeklyView.getBlocksForDay
getBlocksForDay(bs, day) ==
    sortByStart(SelectSeq(bs, LAMBDA b : isSameDayAsDate(b.start, day)))

\* StudyTimetable.getWeeklyStats: the window and the statistics
getWeeklyStats(bs, selectedDate) ==
    LET weekStart == addDays(selectedDate, 1 - getDay(selectedDate))
        weekEnd == addDays(weekStart, 6)
    IN  [weekStart |-> weekStart, weekEnd |-> weekEnd,
         stats |-> getSubjectStats(bs, weekStart, weekEnd)]

\* the dates the user may have selected: any weekday, any time of day
SelectedDates == (7 * SlotsPerDay)..((8 + MaxDay) * SlotsPerDay - 1)

\* a block of one slot that starts in the week selected, the week before or
\* the week after
WeekBlocks ==
    {[id |-> 1, subject |-> <<"P">>, description |-> NoDescription, start |-> a,
      end |-> a + 1, priority |-> "normal", color |-> "subject-blue",
      createdAt |-> 0, updatedAt |-> 0] :
        a \in 0..((15 + MaxDay) * SlotsPerDay - 1)}

InitWeek ==
    /\ storage = Absent
    /\ colorAssignments = EmptyMap
    /\ blocks \in {<<>>} \cup {<<b>> : b \in WeekBlocks}
    /\ editingBlock = Null
    /\ isFormOpen = FALSE
    /\ formError = Null
    /\ now = 0
    /\ nextId = 0
    /\ ret \in {[op |-> "selected", selectedDate |-> d] : d \in SelectedDates}

\* one render of StudyTimetable: the statistics card and the weekly grid
Render ==
    /\ ret.op = "selected"
    /\ ret' = [op |-> "render", selectedDate |-> ret.selectedDate,
               weeklyStats |-> getWeeklyStats(blocks, ret.selectedDate),
               weekDays |-> getWeekDays(ret.selectedDate),
               dayBlocks |-> [i \in DOMAIN getWeekDays(ret.selectedDate) |->
                                getBlocksForDay(blocks,
                                                getWeekDays(ret.selectedDate)[i])]]
    /\ UNCHANGED <<storage, colorAssignments, blocks, editingBlock, isFormOpen,
                   formError, now, nextId>>

SpecWeek == InitWeek /\ [][Render]_vars

\* the block is in one of the columns of the weekly grid
ShownInWeek(b) ==
    \E i \in DOMAIN ret.dayBlocks :
        \E n \in DOMAIN ret.dayBlocks[i] : ret.dayBlocks[i][n] = b

\* C23: for every selected date, any weekday and any time of day, the window
\* the weekly statistics pass to subjectStats contains the start of every
\* block the weekly view shows for that date's week, Monday 00:00 through
\* Sunday end of day, and the start of no block of another week: a block is
\* counted in "This Week's Study Time" exactly when the grid shows it.
C23_StatsWeekIsViewWeek ==
    ret.op = "render" =>
        /\ Len(ret.weekDays) = 7
        /\ getDay(ret.weekDays[1]) = 1
        /\ ret.weekDays[1] <= ret.selectedDate
        /\ ret.selectedDate <= endOfDay(ret.weekDays[7])
        /\ \A i \in DOMAIN blocks :
               /\ ShownInWeek(blocks[i]) =>
                      /\ ret.weeklyStats.weekStart <= blocks[i].start
                      /\ blocks[i].start <= ret.weeklyStats.weekEnd
                      /\ blocks[i].subject \in DOMAIN ret.weeklyStats.stats
               /\ ~ShownInWeek(blocks[i]) =>
                      blocks[i].subject \notin DOMAIN ret.weeklyStats.stats

=============================================================================
